---- MODULE Spec2Model ----
(***************************************************************************)
(* udp-chat: the server (src/src/server.rs), the wire format               *)
(* (src/src/lib.rs) and the client's send paths (src/src/client.rs).       *)
(*                                                                         *)
(* The server runs three tasks: the ingress loop (recv_from, decode,       *)
(* enqueue), the timer (sleep 1 s, enqueue Tick) and the registry task     *)
(* (dequeue, mutate Users, send).  The registry awaits every send_to, so    *)
(* the other two tasks can run between two sends of one handler: a send    *)
(* loop is modelled one iteration per step.                                *)
(***************************************************************************)
EXTENDS Integers, Sequences, FiniteSets, TLC

(***************************************************************************)
(* Bounds of the model.                                                    *)
(***************************************************************************)
\* Events the unbounded channel holds at most in the model.
MaxQueue == 2
\* Instants are measured from a sliding origin MaxTime seconds before the
\* present; an older Instant is clamped to the origin.  The code only ever
\* takes the difference now - last_ping and compares it with EXPIRED, so
\* the clamp is exact as long as MaxTime > EXPIRED.
MaxTime == 6
\* Bytes of a display name (the client's "client#<u32>" has 8 to 17).
NameLen == 8

(***************************************************************************)
(* Program constants.                                                      *)
(***************************************************************************)
MAX_PACKET_SIZE == 2048
EXPIRED == 5

Addr == {"a1", "a2"}

(***************************************************************************)
(* Strings.  A String is [id, n, esc]: its identity, its length in bytes   *)
(* and how many of its bytes serde_json writes as a two-byte escape        *)
(* (a quote or a backslash).                                               *)
(***************************************************************************)
Str(id, n, esc) == [id |-> id, n |-> n, esc |-> esc]

\* Two display names, one a byte longer than the other.
Names == {Str("n1", NameLen, 0), Str("n2", NameLen + 1, 0)}

\* Bytes serde_json writes around the two strings of a ChatNotify and
\* around the one string of a ChatReq.
NotifyFrame == Len("{\"ChatNotify\":{\"name\":\"") + Len("\",\"contents\":\"") + Len("\"}}")
ChatReqFrame == Len("{\"ChatReq\":{\"contents\":\"") + Len("\"}}")

\* The longest escaped name of Names.
MaxNameJson == NameLen + 1

\* A short line; a line whose ChatNotify is exactly MAX_PACKET_SIZE bytes
\* under the longest name (and one byte less under the other); a line whose
\* ChatReq is exactly MAX_PACKET_SIZE bytes.
ShortText == Str("t1", 2, 1)
EdgeText == Str("t2", MAX_PACKET_SIZE - NotifyFrame - MaxNameJson - 1, 1)
LongText == Str("t3", MAX_PACKET_SIZE - ChatReqFrame, 0)

Lines == {ShortText, EdgeText, LongText}

\* What the peer at an address logs in as and types.  The second address is
\* there as the other recipient: one name, short lines.
NamesOf(a) == IF a = "a1" THEN Names ELSE {Str("n2", NameLen + 1, 0)}
LinesOf(a) == IF a = "a1" THEN Lines ELSE {ShortText}

(***************************************************************************)
(* lib.rs: Packets and their serde_json encoding.  Bytes are a sequence of *)
(* tokens: [lit |-> text] is the text itself, [str |-> s] the escaped body *)
(* of the string s.                                                        *)
(***************************************************************************)
LoginReq(name) == [tag |-> "LoginReq", name |-> name]
ChatReq(contents) == [tag |-> "ChatReq", contents |-> contents]
ChatNotify(name, contents) == [tag |-> "ChatNotify", name |-> name, contents |-> contents]
Ping == [tag |-> "Ping"]

DecodeErr == [tag |-> "Err"]

Lit(t) == [lit |-> t]
Esc(s) == [str |-> s]
IsEsc(tok) == DOMAIN tok = {"str"}

\* serde_json::to_string(&packet)
to_string(p) ==
    CASE p.tag = "LoginReq" ->
           <<Lit("{\"LoginReq\":{\"name\":\""), Esc(p.name), Lit("\"}}")>>
      [] p.tag = "ChatReq" ->
           <<Lit("{\"ChatReq\":{\"contents\":\""), Esc(p.contents), Lit("\"}}")>>
      [] p.tag = "ChatNotify" ->
           <<Lit("{\"ChatNotify\":{\"name\":\""), Esc(p.name),
             Lit("\",\"contents\":\""), Esc(p.contents), Lit("\"}}")>>
      [] p.tag = "Ping" -> <<Lit("\"Ping\"")>>

TokLen(tok) == IF IsEsc(tok) THEN tok.str.n + tok.str.esc ELSE Len(tok.lit)

RECURSIVE ByteLen(_)
\* packet_json.as_bytes().len()
ByteLen(b) == IF b = <<>> THEN 0 ELSE TokLen(Head(b)) + ByteLen(Tail(b))

\* serde_json::from_slice::<Packets>(read_buf)
from_slice(b) ==
    IF b = <<Lit("\"Ping\"")>> THEN Ping
    ELSE IF Len(b) = 3 /\ IsEsc(b[2]) /\ b[3] = Lit("\"}}")
            /\ b[1] = Lit("{\"LoginReq\":{\"name\":\"")
         THEN LoginReq(b[2].str)
    ELSE IF Len(b) = 3 /\ IsEsc(b[2]) /\ b[3] = Lit("\"}}")
            /\ b[1] = Lit("{\"ChatReq\":{\"contents\":\"")
         THEN ChatReq(b[2].str)
    ELSE IF Len(b) = 5 /\ IsEsc(b[2]) /\ IsEsc(b[4]) /\ b[5] = Lit("\"}}")
            /\ b[1] = Lit("{\"ChatNotify\":{\"name\":\"")
            /\ b[3] = Lit("\",\"contents\":\"")
         THEN ChatNotify(b[2].str, b[4].str)
    ELSE DecodeErr

(***************************************************************************)
(* server.rs: Message, the events of the channel.                          *)
(***************************************************************************)
Login(addr, name) == [tag |-> "Login", addr |-> addr, name |-> name]
Chat(addr, contents) == [tag |-> "Chat", addr |-> addr, contents |-> contents]
Logout(addr) == [tag |-> "Logout", addr |-> addr]
PingReceived(addr) == [tag |-> "PingReceived", addr |-> addr]
Tick == [tag |-> "Tick"]
NoMessage == [tag |-> "None"]
NoName == [id |-> "None"]

VARIABLES
    users,   \* Users.users: HashMap<SocketAddr, User>, a function on its keys
    queue,   \* the events in the unbounded channel, oldest first
    reg,     \* the registry task: where it stands, and its handler's locals
    out,     \* how many send_to calls of the current handler went to each address
    last,    \* what the most recent step was, when it dequeued an event or logged an error
    gone     \* the addresses whose client process has ended

vars == <<users, queue, reg, out, last, gone>>

\* Instant::now()
Now == MaxTime

NoSends == [a \in Addr |-> 0]
Idle == [pc |-> "recv", pkt |-> <<>>, todo |-> {}]

(***************************************************************************)
(* server.rs: User and Users.                                              *)
(***************************************************************************)
\* User::new
User_new(name) == [name |-> name, last_ping |-> Now]

\* User::update_ping
update_ping(user) == [user EXCEPT !.last_ping = Now]

\* As User::is_expired, were the two Instants subtracted the other way round.
is_expired_reversed(user, now) == user.last_ping - now > EXPIRED

\* As User::is_expired, were a session to expire on reaching the threshold.
is_expired_at_threshold(user, now) == now - user.last_ping >= EXPIRED

\* User::is_expired
is_expired(user, now) == now - user.last_ping > EXPIRED

\* HashMap::insert
Insert(m, k, v) == [x \in DOMAIN m \cup {k} |-> IF x = k THEN v ELSE m[x]]

\* HashMap::remove
Remove(m, k) == [x \in DOMAIN m \ {k} |-> m[x]]

\* As Users::add_user, were it to keep the session an address already has.
add_user_if_absent(us, addr, name) ==
    IF addr \in DOMAIN us THEN us ELSE Insert(us, addr, User_new(name))

\* Users::add_user
add_user(us, addr, name) == Insert(us, addr, User_new(name))

\* As Users::remove_user, were it to clear the table.
remove_user_clearing(us, addr) == [x \in {} |-> 0]

\* Users::remove_user
remove_user(us, addr) == Remove(us, addr)

\* As Users::ping_received, were it to enter a session for an unknown address.
ping_received_inserting(us, addr) ==
    IF addr \in DOMAIN us THEN [us EXCEPT ![addr] = update_ping(us[addr])]
    ELSE Insert(us, addr, User_new(Str("", 0, 0)))

\* As Users::ping_received, were a Ping to refresh every session.
ping_received_refreshing_all(us, addr) ==
    IF addr \in DOMAIN us THEN [a \in DOMAIN us |-> update_ping(us[a])] ELSE us

\* Users::ping_received
ping_received(us, addr) ==
    IF addr \in DOMAIN us THEN [us EXCEPT ![addr] = update_ping(us[addr])] ELSE us

\* Users::tick, its first block: users.retain(|_, v| !v.is_expired(now))
sweep(us) == [x \in {a \in DOMAIN us : ~is_expired(us[a], Now)} |-> us[x]]

\* As Users::get_name, were an unknown address to get the empty name.
get_name_or_default(us, addr) ==
    IF addr \in DOMAIN us THEN us[addr].name ELSE Str("", 0, 0)

\* Users::get_name
get_name(us, addr) == IF addr \in DOMAIN us THEN us[addr].name ELSE NoName

\* Users::new
Users_new == [x \in {} |-> 0]

Init ==
    /\ users = Users_new
    /\ queue = <<>>
    /\ reg = Idle
    /\ out = NoSends
    /\ last = [op |-> "start"]
    /\ gone = {}

(***************************************************************************)
(* server.rs main: the timer task.  sleep(1 s) returns, so every stored    *)
(* Instant lies one second further in the past, and Tick is sent.          *)
(***************************************************************************)
Older(t) == IF t > 0 THEN t - 1 ELSE 0

\* The same table read one second later.
Aged(us) == [a \in DOMAIN us |-> [us[a] EXCEPT !.last_ping = Older(@)]]

Timer ==
    /\ Len(queue) < MaxQueue
    /\ users' = Aged(users)
    /\ queue' = Append(queue, Tick)
    /\ last' = [op |-> "none"]
    /\ UNCHANGED <<reg, out, gone>>

(***************************************************************************)
(* server.rs main: the ingress loop.                                       *)
(***************************************************************************)
\* As the loop body, were a decode error to count as a disconnect.
ingress_event_err_is_logout(client, bytes) ==
    IF ByteLen(bytes) = 0 THEN Logout(client)
    ELSE LET read_packet == from_slice(bytes) IN
         CASE read_packet.tag = "Err" -> Logout(client)
           [] read_packet.tag = "LoginReq" -> Login(client, read_packet.name)
           [] read_packet.tag = "ChatReq" -> Chat(client, read_packet.contents)
           [] read_packet.tag = "Ping" -> PingReceived(client)
           [] OTHER -> NoMessage

\* As the loop body, were a ChatNotify from a peer to be relayed as its chat.
ingress_event_relaying(client, bytes) ==
    IF ByteLen(bytes) = 0 THEN Logout(client)
    ELSE LET read_packet == from_slice(bytes) IN
         CASE read_packet.tag = "Err" -> NoMessage
           [] read_packet.tag = "LoginReq" -> Login(client, read_packet.name)
           [] read_packet.tag = "ChatReq" -> Chat(client, read_packet.contents)
           [] read_packet.tag = "Ping" -> PingReceived(client)
           [] OTHER -> Chat(client, read_packet.contents)

\* What one iteration sends into the channel for `size` received bytes
\* `bytes` from `client`: the body of the loop after recv_from succeeded.
ingress_event(client, bytes) ==
    IF ByteLen(bytes) = 0 THEN Logout(client)
    ELSE LET read_packet == from_slice(bytes) IN
         CASE read_packet.tag = "Err" -> NoMessage
           [] read_packet.tag = "LoginReq" -> Login(client, read_packet.name)
           [] read_packet.tag = "ChatReq" -> Chat(client, read_packet.contents)
           [] read_packet.tag = "Ping" -> PingReceived(client)
           [] OTHER -> NoMessage

\* As the loop body, were it to wait for the registry to finish its sends.
Ingress_after_sends(client, bytes) ==
    LET msg == ingress_event(client, bytes) IN
    /\ reg.pc = "recv"
    /\ IF msg = NoMessage
       THEN UNCHANGED queue
       ELSE Len(queue) < MaxQueue /\ queue' = Append(queue, msg)
    /\ last' = IF ByteLen(bytes) # 0 /\ from_slice(bytes) = DecodeErr
               THEN [op |-> "err", bytes |-> bytes]
               ELSE [op |-> "none"]
    /\ UNCHANGED <<users, reg, out, gone>>

\* recv_from returned Ok((size, client)) with these bytes.  The step notes
\* a datagram the decoder rejected (the loop's "err: ..." line on stderr).
Ingress(client, bytes) ==
    LET msg == ingress_event(client, bytes) IN
    /\ IF msg = NoMessage
       THEN UNCHANGED queue
       ELSE Len(queue) < MaxQueue /\ queue' = Append(queue, msg)
    /\ last' = IF ByteLen(bytes) # 0 /\ from_slice(bytes) = DecodeErr
               THEN [op |-> "err", bytes |-> bytes]
               ELSE [op |-> "none"]
    /\ UNCHANGED <<users, reg, out, gone>>

\* recv_from returned Err: logged (unless ConnectionReset), next iteration.
RecvError ==
    /\ last' = [op |-> "none"]
    /\ UNCHANGED <<users, queue, reg, out, gone>>

(***************************************************************************)
(* Who sends to the server's socket: clients running client.rs, and any    *)
(* other peer, whose datagram may hold anything that fits the buffer.      *)
(***************************************************************************)
\* client.rs main: the login, sent unchecked.
ClientLogin(a, name) ==
    LET bytes == to_string(LoginReq(name)) IN a \notin gone /\ Ingress(a, bytes)

\* client.rs main: one line of stdin.
ClientChat(a, line) ==
    LET bytes == to_string(ChatReq(line)) IN
    /\ a \notin gone
    /\ IF ByteLen(bytes) >= MAX_PACKET_SIZE
       THEN /\ last' = [op |-> "none"]
            /\ UNCHANGED <<users, queue, reg, out, gone>>
       ELSE Ingress(a, bytes)

\* client.rs timer: one beat.
ClientPing(a) ==
    LET bytes == to_string(Ping) IN a \notin gone /\ Ingress(a, bytes)

\* client.rs main: stdin ends or a chat send fails, main returns and the
\* runtime drops the timer task with it.  Nothing is sent to the server.
ClientExit(a) ==
    /\ a \notin gone
    /\ gone' = gone \cup {a}
    /\ last' = [op |-> "none"]
    /\ UNCHANGED <<users, queue, reg, out>>

\* Datagrams of other peers: empty, not JSON, and a packet only the server sends.
PeerBytes == {<<>>, <<Lit("hello")>>, to_string(ChatNotify(Str("n1", NameLen, 0), ShortText))}

Peer(a, bytes) == Ingress(a, bytes)

(***************************************************************************)
(* server.rs main: the registry task.                                      *)
(***************************************************************************)
\* As Users::send, were it to skip the sessions that carry the sender's name.
send_to_others(us, name, contents) ==
    LET packet_buf == to_string(ChatNotify(name, contents)) IN
    IF ByteLen(packet_buf) >= MAX_PACKET_SIZE
    THEN [pkt |-> packet_buf, todo |-> {}]
    ELSE [pkt |-> packet_buf, todo |-> {a \in DOMAIN us : us[a].name # name}]

\* As Users::send, were its size check to let exactly 2048 bytes through.
send_up_to_max(us, name, contents) ==
    LET packet_buf == to_string(ChatNotify(name, contents)) IN
    IF ByteLen(packet_buf) > MAX_PACKET_SIZE
    THEN [pkt |-> packet_buf, todo |-> {}]
    ELSE [pkt |-> packet_buf, todo |-> DOMAIN us]

\* As Users::send, were it to loop over every address the server knows of.
send_to_every_address(us, name, contents) ==
    LET packet_buf == to_string(ChatNotify(name, contents)) IN
    IF ByteLen(packet_buf) >= MAX_PACKET_SIZE
    THEN [pkt |-> packet_buf, todo |-> {}]
    ELSE [pkt |-> packet_buf, todo |-> Addr]

\* Users::send up to its loop: the bytes to send and the addresses the loop
\* will visit, none when the packet is refused for its size.
send(us, name, contents) ==
    LET packet == ChatNotify(name, contents)
        packet_buf == to_string(packet)
    IN  IF ByteLen(packet_buf) >= MAX_PACKET_SIZE
        THEN [pkt |-> packet_buf, todo |-> {}]
        ELSE [pkt |-> packet_buf, todo |-> DOMAIN us]

\* As the probe, were its loop to stop after the first key.
probe_first_key(us) ==
    [pkt |-> to_string(Ping),
     todo |-> IF DOMAIN us = {} THEN {} ELSE {CHOOSE a \in DOMAIN us : TRUE}]

\* Users::tick, its second block up to the loop, on the swept table.
probe(us) == [pkt |-> to_string(Ping), todo |-> DOMAIN us]

NoLoop == [pkt |-> <<>>, todo |-> {}]

\* As Users::tick, were it to probe before it sweeps.
tick_probe_first(us) == [users |-> sweep(us), loop |-> probe(us)]

\* Users::tick: the sweep, then the probe of whoever is left.
tick(us) == [users |-> sweep(us), loop |-> probe(sweep(us))]

\* As the Chat arm, were a chat to count as a sign of life.
chat_refreshing(us, addr, contents) ==
    LET name == get_name(us, addr) IN
    [users |-> ping_received(us, addr),
     loop |-> IF name # NoName THEN send(us, name, contents) ELSE NoLoop]

\* The Chat arm: the sender's name is looked up, and only a known sender
\* gets Users::send called.
chat(us, addr, contents) ==
    LET name == get_name(us, addr) IN
    [users |-> us,
     loop |-> IF name # NoName THEN send(us, name, contents) ELSE NoLoop]

\* The match on the event: the table the arm leaves, and the send loop it
\* enters.
handle(us, msg) ==
    CASE msg.tag = "Login" ->
           [users |-> add_user(us, msg.addr, msg.name), loop |-> NoLoop]
      [] msg.tag = "Logout" ->
           [users |-> remove_user(us, msg.addr), loop |-> NoLoop]
      [] msg.tag = "Chat" -> chat(us, msg.addr, msg.contents)
      [] msg.tag = "PingReceived" ->
           [users |-> ping_received(us, msg.addr), loop |-> NoLoop]
      [] msg.tag = "Tick" -> tick(us)

\* As the registry task, were it to take the newest event first.
Registry_newest_first ==
    /\ reg.pc = "recv"
    /\ queue # <<>>
    /\ LET msg == queue[Len(queue)]
           arm == handle(users, msg)
       IN  /\ queue' = SubSeq(queue, 1, Len(queue) - 1)
           /\ users' = arm.users
           /\ reg' = IF arm.loop.todo = {} THEN Idle
                     ELSE [pc |-> "send", pkt |-> arm.loop.pkt, todo |-> arm.loop.todo]
           /\ out' = NoSends
           /\ last' = [op |-> "event", msg |-> msg, prev |-> users]
    /\ UNCHANGED gone

\* receiver.recv().await returns the oldest event; its arm runs up to the
\* first send_to().await, or to its end when it sends to nobody.
Registry ==
    /\ reg.pc = "recv"
    /\ queue # <<>>
    /\ LET msg == Head(queue)
           arm == handle(users, msg)
       IN  /\ queue' = Tail(queue)
           /\ users' = arm.users
           /\ reg' = IF arm.loop.todo = {} THEN Idle
                     ELSE [pc |-> "send", pkt |-> arm.loop.pkt, todo |-> arm.loop.todo]
           /\ out' = NoSends
           /\ last' = [op |-> "event", msg |-> msg, prev |-> users]
    /\ UNCHANGED gone

\* As the loop body, were a failed send_to to end the loop.
RegistrySend_or_return(user_addr, ok) ==
    /\ reg.pc = "send"
    /\ user_addr \in reg.todo
    /\ out' = [out EXCEPT ![user_addr] = @ + 1]
    /\ reg' = IF ok THEN [reg EXCEPT !.todo = @ \ {user_addr}] ELSE Idle
    /\ last' = IF ok THEN [op |-> "none"] ELSE [op |-> "fail", to |-> user_addr]
    /\ UNCHANGED <<users, queue, gone>>

\* As the loop body, were it to skip an address whose Logout is waiting in
\* the channel.
RegistrySend_unless_leaving(user_addr, ok) ==
    /\ reg.pc = "send"
    /\ user_addr \in reg.todo
    /\ out' = IF \E i \in 1..Len(queue) : queue[i] = Logout(user_addr)
              THEN out ELSE [out EXCEPT ![user_addr] = @ + 1]
    /\ reg' = [reg EXCEPT !.todo = @ \ {user_addr}]
    /\ last' = IF ok THEN [op |-> "none"] ELSE [op |-> "fail", to |-> user_addr]
    /\ UNCHANGED <<users, queue, gone>>

\* One iteration of the loop of Users::send or Users::tick: send_to(packet_buf,
\* user_addr).await returns Ok or Err; either is logged and the loop goes on.
\* The HashMap yields its keys in an order the code does not choose.
RegistrySend(user_addr, ok) ==
    /\ reg.pc = "send"
    /\ user_addr \in reg.todo
    /\ out' = [out EXCEPT ![user_addr] = @ + 1]
    /\ reg' = [reg EXCEPT !.todo = @ \ {user_addr}]
    /\ last' = IF ok THEN [op |-> "none"] ELSE [op |-> "fail", to |-> user_addr]
    /\ UNCHANGED <<users, queue, gone>>

\* The loop has visited every key: the handler returns and the task is back
\* at receiver.recv().await.
RegistryDone ==
    /\ reg.pc = "send"
    /\ reg.todo = {}
    /\ reg' = Idle
    /\ out' = NoSends
    /\ last' = [op |-> "none"]
    /\ UNCHANGED <<users, queue, gone>>

Next ==
    \/ Timer
    \/ RecvError
    \/ \E a \in Addr : \E name \in NamesOf(a) : ClientLogin(a, name)
    \/ \E a \in Addr : \E line \in LinesOf(a) : ClientChat(a, line)
    \/ \E a \in Addr : ClientPing(a)
    \/ \E a \in Addr, bytes \in PeerBytes : Peer(a, bytes)
    \/ Registry
    \/ \E a \in Addr, ok \in BOOLEAN : RegistrySend(a, ok)
    \/ RegistryDone

Spec == Init /\ [][Next]_vars

(***************************************************************************)
(* client.rs main: the receive task.  What it does with one datagram:      *)
(* what it prints, whether it stores the time in last_ping, and the        *)
(* datagrams it sends to the server because of it.                         *)
(***************************************************************************)
\* As the receive task, were its Ping arm to send a Ping back.
client_receive_echoing(read_buf) ==
    LET read_packet == from_slice(read_buf) IN
    CASE read_packet.tag = "ChatNotify" ->
           [printed |-> <<read_packet.name, read_packet.contents>>,
            stored |-> FALSE, sent |-> <<>>]
      [] read_packet.tag = "Ping" ->
           [printed |-> <<>>, stored |-> TRUE, sent |-> <<to_string(Ping)>>]
      [] OTHER -> [printed |-> <<>>, stored |-> FALSE, sent |-> <<>>]

client_receive(read_buf) ==
    LET read_packet == from_slice(read_buf) IN
    CASE read_packet.tag = "ChatNotify" ->
           [printed |-> <<read_packet.name, read_packet.contents>>,
            stored |-> FALSE, sent |-> <<>>]
      [] read_packet.tag = "Ping" ->
           [printed |-> <<>>, stored |-> TRUE, sent |-> <<>>]
      [] OTHER -> [printed |-> <<>>, stored |-> FALSE, sent |-> <<>>]

\* receive_socket.recv returns the packet the registry's running loop has
\* handed to send_to for this address.  Whatever the task sends because of
\* it reaches the ingress loop like any datagram of that client.
ClientRecv(a) ==
    /\ a \notin gone
    /\ reg.pc = "send"
    /\ out[a] = 1
    /\ LET did == client_receive(reg.pkt)
           msgs == [i \in 1..Len(did.sent) |-> ingress_event(a, did.sent[i])]
       IN  /\ Len(queue) + Len(msgs) <= MaxQueue
           /\ queue' = queue \o msgs
           /\ last' = [op |-> "heard", at |-> a, did |-> did]
    /\ UNCHANGED <<users, reg, out, gone>>

ClientNext ==
    \/ Next
    \/ \E a \in Addr : ClientRecv(a)

ClientSpec == Init /\ [][ClientNext]_vars

(***************************************************************************)
(* The same server with clients that may end, under the scheduling the     *)
(* runtime gives its tasks.  The registry task, once it can take a step,   *)
(* takes it (weak fairness).  The timer task sleeps and sends into an      *)
(* unbounded channel, so nothing in the program can hold it back; here the *)
(* channel has a bound, the timer can step whenever the registry has made  *)
(* room, and taking such a step again and again is strong fairness.        *)
(***************************************************************************)
LiveNames == {Str("n2", NameLen + 1, 0)}
LiveLines == {ShortText}
LiveBytes == {<<>>}

LiveNext ==
    \/ Timer
    \/ \E a \in Addr : \E name \in LiveNames : ClientLogin(a, name)
    \/ \E a \in Addr : \E line \in LiveLines : ClientChat(a, line)
    \/ \E a \in Addr : ClientPing(a)
    \/ \E a \in Addr : ClientExit(a)
    \/ \E a \in Addr, bytes \in LiveBytes : Peer(a, bytes)
    \/ Registry
    \/ \E a \in Addr, ok \in BOOLEAN : RegistrySend(a, ok)
    \/ RegistryDone

Fairness ==
    /\ SF_vars(Timer)
    /\ WF_vars(Registry)
    /\ WF_vars(\E a \in Addr, ok \in BOOLEAN : RegistrySend(a, ok))
    /\ WF_vars(RegistryDone)

LiveSpec == Init /\ [][LiveNext]_vars /\ Fairness

(***************************************************************************)
(* What the claims speak of.                                               *)
(***************************************************************************)
\* The step just taken dequeued `last.msg` from a table `last.prev`.
Processed(tag) == last.op = "event" /\ last.msg.tag = tag

\* The step being taken dequeues an event with this tag.
Processing(tag) == last'.op = "event" /\ last'.msg.tag = tag

\* A session that has seen no Login and no Ping for longer than the threshold.
Stale(user) == Now - user.last_ping > EXPIRED

\* The step being taken leaves every session as it is: the same keys, names
\* and Instants (which a second that passes moves one further into the past).
TableKept == users' = IF queue' = Append(queue, Tick) THEN Aged(users) ELSE users

\* A session as a Login leaves it.
Fresh(name) == [name |-> name, last_ping |-> Now]

(***************************************************************************)
(* C1.  The keys of the session table are exactly the addresses with a     *)
(* processed Login that no later Logout and no later sweep removed: the    *)
(* table starts empty; a Login adds its address, a Logout removes its      *)
(* address, a Tick removes the addresses whose session is stale, and no    *)
(* other step (Chat, PingReceived, a send, the ingress loop, the timer)    *)
(* adds or removes a key.                                                  *)
(***************************************************************************)
C1_KeysAfter(keys, us, msg) ==
    CASE msg.tag = "Login" -> keys \cup {msg.addr}
      [] msg.tag = "Logout" -> keys \ {msg.addr}
      [] msg.tag = "Tick" -> {a \in keys : ~Stale(us[a])}
      [] OTHER -> keys

C1_SessionTable ==
    /\ users = Users_new
    /\ [][DOMAIN users' = IF last'.op = "event"
                           THEN C1_KeysAfter(DOMAIN users, users, last'.msg)
                           ELSE DOMAIN users]_vars

\* A Tick has just swept a session that a Login had put in the table.
C1_Witness ==
    /\ Processed("Tick")
    /\ \E a \in DOMAIN last.prev : a \notin DOMAIN users

(***************************************************************************)
(* C2 as stated.  A Chat from a registered address always starts a send    *)
(* of ChatNotify{N, text} to every address of the table, whatever the      *)
(* text the ingress loop accepted.                                         *)
(***************************************************************************)
C2_Notify == to_string(ChatNotify(last.prev[last.msg.addr].name, last.msg.contents))

C2_EveryText ==
    Processed("Chat") /\ last.msg.addr \in DOMAIN last.prev
        => reg = [pc |-> "send", pkt |-> C2_Notify, todo |-> DOMAIN users]

(***************************************************************************)
(* C2, amended.  A Chat(A, text) from an address registered under N whose  *)
(* ChatNotify{N, text} encodes to fewer than 2048 bytes hands that packet  *)
(* to send_to exactly once for every address of the table, A included,     *)
(* and sends nothing else; the table does not change while it does.  When  *)
(* the encoding has 2048 bytes or more, nothing is sent.                   *)
(***************************************************************************)
C2_Start ==
    Processed("Chat") /\ last.msg.addr \in DOMAIN last.prev
        => /\ users = last.prev
           /\ out = NoSends
           /\ reg = IF ByteLen(C2_Notify) < MAX_PACKET_SIZE
                    THEN [pc |-> "send", pkt |-> C2_Notify, todo |-> DOMAIN users]
                    ELSE Idle

\* In the send loop the addresses already served and those still to serve
\* split the keys of the table, and each served one got one send_to.
C2_Once ==
    reg.pc = "send"
        => /\ reg.todo \subseteq DOMAIN users
           /\ \A a \in Addr :
                 out[a] = IF a \in DOMAIN users \ reg.todo THEN 1 ELSE 0

\* The loop keeps its packet and the table, and ends only when no address is left.
C2_Loop ==
    reg.pc = "send"
        => /\ TableKept
           /\ reg'.pc = "send" => reg'.pkt = reg.pkt
           /\ reg'.pc = "recv" => reg.todo = {}

C2_Broadcast == [](C2_Start /\ C2_Once) /\ [][C2_Loop]_vars

\* The loop of a ChatNotify has served both addresses of the table.
C2_Witness ==
    /\ reg.pc = "send"
    /\ reg.todo = {}
    /\ from_slice(reg.pkt).tag = "ChatNotify"
    /\ DOMAIN users = Addr
    /\ \A a \in Addr : out[a] = 1

(***************************************************************************)
(* C3.  A Chat from an address with no session sends nothing, whoever else *)
(* is registered, and leaves the table as it was.                          *)
(***************************************************************************)
C3_UnknownSender ==
    Processed("Chat") /\ last.msg.addr \notin DOMAIN last.prev
        => users = last.prev /\ reg = Idle /\ out = NoSends

\* A Chat from an unknown address was dropped while another address is registered.
C3_Witness ==
    /\ Processed("Chat")
    /\ last.msg.addr \notin DOMAIN last.prev
    /\ DOMAIN last.prev # {}
    /\ reg = Idle

(***************************************************************************)
(* C4.  A Tick sweeps before it probes: a session that is stale when the   *)
(* Tick is processed is gone from the table after it and is not among the  *)
(* addresses its probe loop visits; the loop sends only to addresses on    *)
(* its list, and the list never grows.                                     *)
(***************************************************************************)
C4_Swept ==
    Processed("Tick")
        => \A a \in DOMAIN last.prev :
             Stale(last.prev[a]) => a \notin DOMAIN users /\ a \notin reg.todo

C4_OnlyListed ==
    /\ \A a \in Addr : out'[a] > out[a] => reg.pc = "send" /\ a \in reg.todo
    /\ reg.pc = "send" /\ reg'.pc = "send" => reg'.todo \subseteq reg.todo

C4_SweepBeforeProbe == []C4_Swept /\ [][C4_OnlyListed]_vars

\* A Tick has removed a stale session and is about to probe a surviving one.
C4_Witness ==
    /\ Processed("Tick")
    /\ \E a \in DOMAIN last.prev : Stale(last.prev[a])
    /\ reg.pc = "send"
    /\ reg.pkt = to_string(Ping)
    /\ reg.todo # {}

(***************************************************************************)
(* C5.  A Login at a registered address replaces that session by one with  *)
(* the new name and the current time; the table has the same keys, every   *)
(* other session is as it was, and nothing is sent.                        *)
(***************************************************************************)
C5_Relogin ==
    Processed("Login") /\ last.msg.addr \in DOMAIN last.prev
        => /\ users = [a \in DOMAIN last.prev |->
                         IF a = last.msg.addr THEN Fresh(last.msg.name)
                         ELSE last.prev[a]]
           /\ reg = Idle
           /\ out = NoSends

\* A Login has replaced an older session of another name, beside a second session.
C5_Witness ==
    /\ Processed("Login")
    /\ DOMAIN last.prev = Addr
    /\ last.prev[last.msg.addr].name # last.msg.name
    /\ last.prev[last.msg.addr].last_ping < Now
    /\ users[last.msg.addr] = Fresh(last.msg.name)

(***************************************************************************)
(* C6.  No datagram of 2048 bytes or more is ever sent.  The server's      *)
(* loops send a packet shorter than 2048 bytes, and a ChatNotify that      *)
(* would be longer is sent to nobody; every LoginReq and ChatReq that      *)
(* reached the server was shorter than 2048 bytes, and a client that       *)
(* reads a line whose ChatReq is too long sends nothing.                   *)
(***************************************************************************)
C6_ServerSends == reg.pc = "send" => ByteLen(reg.pkt) < MAX_PACKET_SIZE

C6_ServerRefuses ==
    /\ Processed("Chat")
    /\ last.msg.addr \in DOMAIN last.prev
    /\ ByteLen(C2_Notify) >= MAX_PACKET_SIZE
    => reg = Idle /\ out = NoSends

C6_ClientSent ==
    \A i \in 1..Len(queue) :
        /\ queue[i].tag = "Chat"
             => ByteLen(to_string(ChatReq(queue[i].contents))) < MAX_PACKET_SIZE
        /\ queue[i].tag = "Login"
             => ByteLen(to_string(LoginReq(queue[i].name))) < MAX_PACKET_SIZE
        /\ queue[i].tag = "PingReceived"
             => ByteLen(to_string(Ping)) < MAX_PACKET_SIZE

C6_ClientRefuses ==
    \A a \in Addr : \A line \in LinesOf(a) :
        /\ ByteLen(to_string(ChatReq(line))) >= MAX_PACKET_SIZE
        /\ ClientChat(a, line)
        => UNCHANGED <<users, queue, reg, out>>

C6_SizeLimit ==
    /\ [](C6_ServerSends /\ C6_ServerRefuses /\ C6_ClientSent)
    /\ [][C6_ClientRefuses]_vars

\* The server has dropped a ChatNotify of exactly 2048 bytes, made from a
\* ChatReq short enough for the client to send.
C6_Witness ==
    /\ Processed("Chat")
    /\ last.msg.addr \in DOMAIN last.prev
    /\ ByteLen(to_string(ChatReq(last.msg.contents))) < MAX_PACKET_SIZE
    /\ ByteLen(C2_Notify) = MAX_PACKET_SIZE
    /\ DOMAIN users = Addr
    /\ reg = Idle

(***************************************************************************)
(* C7.  A datagram that is not empty and does not decode puts no event on  *)
(* the queue and changes neither the table nor the registry's sends; the   *)
(* loop takes the next datagram.                                           *)
(***************************************************************************)
C7_Dropped == last'.op = "err" => UNCHANGED <<users, queue, reg, out>>

C7_NextDatagram ==
    last.op = "err" /\ Len(queue) < MaxQueue
        => \A a \in Addr : ENABLED Ingress(a, to_string(Ping))

C7_Malformed == []C7_NextDatagram /\ [][C7_Dropped]_vars

\* The loop has just rejected a datagram while an event waits and a session exists.
C7_Witness ==
    /\ last.op = "err"
    /\ ByteLen(last.bytes) > 0
    /\ from_slice(last.bytes) = DecodeErr
    /\ queue # <<>>
    /\ DOMAIN users # {}

(***************************************************************************)
(* C8.  One received datagram puts at most one event on the queue, chosen  *)
(* by its content and carrying its source address: an empty datagram a     *)
(* Logout, a LoginReq a Login with its name, a ChatReq a Chat with its     *)
(* contents, a Ping a PingReceived, a ChatNotify nothing; a receive error  *)
(* puts nothing on the queue.                                              *)
(***************************************************************************)
C8_Event(a, p) ==
    CASE p.tag = "LoginReq" -> <<Login(a, p.name)>>
      [] p.tag = "ChatReq" -> <<Chat(a, p.contents)>>
      [] p.tag = "Ping" -> <<PingReceived(a)>>
      [] p.tag = "ChatNotify" -> <<>>

C8_Packets ==
    {LoginReq(name) : name \in Names} \cup {ChatReq(line) : line \in Lines}
        \cup {ChatNotify(name, ShortText) : name \in Names} \cup {Ping}

\* Every datagram the loop can tell apart, with the events it is to yield.
C8_Datagrams ==
    {[from |-> a, bytes |-> <<>>, events |-> <<Logout(a)>>] : a \in Addr}
        \cup {[from |-> a, bytes |-> to_string(p), events |-> C8_Event(a, p)] :
                 a \in Addr, p \in C8_Packets}

C8_Step ==
    /\ UNCHANGED <<users, reg, out>>
         => \A d \in C8_Datagrams :
               Ingress(d.from, d.bytes) => queue' = queue \o d.events
    /\ RecvError => queue' = queue
    /\ Len(queue') <= Len(queue) + 1

C8_OneEventPerDatagram == [][C8_Step]_vars

\* The queue holds the Login of a LoginReq and, behind it, the Logout of an
\* empty datagram from the same address.
C8_Witness ==
    /\ Len(queue) = 2
    /\ queue[1].tag = "Login"
    /\ queue[2] = Logout(queue[1].addr)

(***************************************************************************)
(* C9.  A send_to that fails is counted like one that succeeds: the        *)
(* address leaves the loop's list (no retry), the table, the queue and the *)
(* packet stay, and the loop goes on until its list is empty, so every     *)
(* address of the table gets its one send_to.  The registry task never     *)
(* stops: waiting, it can take the next queued event; in a loop, it can    *)
(* take the loop's next step.                                              *)
(***************************************************************************)
C9_FailedSend ==
    last'.op = "fail"
        => /\ last'.to \in reg.todo
           /\ reg' = [reg EXCEPT !.todo = @ \ {last'.to}]
           /\ out' = [out EXCEPT ![last'.to] = @ + 1]
           /\ UNCHANGED <<users, queue>>

C9_LoopRunsOut == reg.pc = "send" /\ reg'.pc = "recv" => reg.todo = {}

C9_TaskAlive ==
    /\ reg.pc \in {"recv", "send"}
    /\ reg.pc = "recv" /\ queue # <<>> => ENABLED Registry
    /\ reg.pc = "send" /\ reg.todo # {}
         => \A a \in reg.todo : ENABLED RegistrySend(a, TRUE)
    /\ reg.pc = "send" /\ reg.todo = {} => ENABLED RegistryDone

C9_SendFailure ==
    /\ [](C2_Once /\ C9_TaskAlive)
    /\ [][C9_FailedSend /\ C9_LoopRunsOut]_vars

\* A send_to has just failed and the loop still has an address to serve.
C9_Witness ==
    /\ last.op = "fail"
    /\ reg.pc = "send"
    /\ reg.todo # {}
    /\ out[last.to] = 1

(***************************************************************************)
(* C10.  With the timer and the registry task scheduled fairly, a session  *)
(* whose client has ended, so that no Login and no Ping comes from its     *)
(* address any more, is removed from the table and stays out of it, and    *)
(* from then on no loop of the registry has its address to send to.  The   *)
(* registry sends to listed addresses only, and the Tick that removes a    *)
(* session lists the sessions it kept, with a Ping for each: nobody is     *)
(* told of the removal.                                                    *)
(***************************************************************************)
C10_Evicted(a) == a \notin DOMAIN users /\ a \notin reg.todo

C10_Silent ==
    Processed("Tick")
        => /\ reg.todo \cup {a \in Addr : out[a] = 1} = DOMAIN users
           /\ reg.pc = "send" => reg.pkt = to_string(Ping)

C10_ListedOnly == \A a \in Addr : out'[a] > out[a] => a \in reg.todo

C10_SilentEviction ==
    /\ \A a \in Addr : (a \in gone /\ a \in DOMAIN users) ~> []C10_Evicted(a)
    /\ []C10_Silent
    /\ [][C10_ListedOnly]_vars

\* A Tick has just removed the session of a client that had ended, and is
\* about to send its Ping to the session it kept.
C10_Witness ==
    /\ Processed("Tick")
    /\ \E a \in gone : a \in DOMAIN last.prev /\ C10_Evicted(a)
    /\ reg.pc = "send"
    /\ reg.todo # {}

(***************************************************************************)
(* C11.  A PingReceived from a registered address sets that session's      *)
(* last_ping to the current time and leaves its name and every other       *)
(* session as they were; from an address without a session it leaves the   *)
(* table as it was, creating nothing.  Either way nothing is sent.         *)
(***************************************************************************)
C11_After(us, addr) ==
    [a \in DOMAIN us |->
        IF a = addr THEN [name |-> us[a].name, last_ping |-> Now] ELSE us[a]]

C11_PingFrame ==
    Processed("PingReceived")
        => /\ users = C11_After(last.prev, last.msg.addr)
           /\ reg = Idle
           /\ out = NoSends

\* A PingReceived has refreshed an older session beside another older one,
\* which kept its Instant.
C11_Witness ==
    /\ Processed("PingReceived")
    /\ DOMAIN last.prev = Addr
    /\ \A a \in Addr : last.prev[a].last_ping < Now
    /\ users[last.msg.addr].last_ping = Now

(***************************************************************************)
(* C12.  A Logout removes the session of its address when there is one and *)
(* does nothing when there is none; every other session keeps its name and *)
(* its last_ping, and nothing is sent.                                     *)
(***************************************************************************)
C12_LogoutFrame ==
    Processed("Logout")
        => /\ users = [a \in DOMAIN last.prev \ {last.msg.addr} |-> last.prev[a]]
           /\ reg = Idle
           /\ out = NoSends

\* A Logout has removed one of two sessions.
C12_Witness ==
    /\ Processed("Logout")
    /\ DOMAIN last.prev = Addr
    /\ DOMAIN users = Addr \ {last.msg.addr}

(***************************************************************************)
(* C13.  A Tick removes exactly the sessions whose age, now - last_ping,   *)
(* is greater than 5 seconds: a session of 5 seconds or less stays as it   *)
(* is and is on the list of the probe.                                     *)
(***************************************************************************)
C13_Age(user) == Now - user.last_ping

C13_Kept(us) == {a \in DOMAIN us : C13_Age(us[a]) <= 5}

C13_StrictExpiry ==
    Processed("Tick")
        => /\ users = [a \in C13_Kept(last.prev) |-> last.prev[a]]
           /\ reg.todo = C13_Kept(last.prev)
           /\ out = NoSends

\* A Tick has kept a session of exactly 5 seconds and removed an older one.
C13_Witness ==
    /\ Processed("Tick")
    /\ \E a \in DOMAIN last.prev : C13_Age(last.prev[a]) = 5 /\ a \in reg.todo
    /\ \E a \in DOMAIN last.prev : C13_Age(last.prev[a]) > 5 /\ a \notin DOMAIN users

(***************************************************************************)
(* C14.  The registry takes the queued events one at a time, oldest first, *)
(* each once: the only step that takes an event takes the head of the      *)
(* queue, every other step leaves the queue or appends one event at its    *)
(* end; an event is taken only when the loop of the one before has served  *)
(* its last address; and the table changes only in the step that takes an  *)
(* event.                                                                  *)
(***************************************************************************)
C14_Takes == last'.op = "event"

C14_Fifo ==
    IF C14_Takes
    THEN queue # <<>> /\ last'.msg = Head(queue) /\ queue' = Tail(queue)
    ELSE queue' = queue \/ (Len(queue') = Len(queue) + 1
                              /\ SubSeq(queue', 1, Len(queue)) = queue)

C14_NoOverlap ==
    /\ C14_Takes => reg.pc = "recv" /\ reg.todo = {}
    /\ reg.pc = "send" /\ reg.todo # {} => reg'.pc = "send"
    /\ ~C14_Takes => TableKept

C14_SingleConsumer == [][C14_Fifo /\ C14_NoOverlap]_vars

\* A Login has been processed while the Chat received after it from the
\* same address waits at the head of the queue.
C14_Witness ==
    /\ Processed("Login")
    /\ queue # <<>>
    /\ Head(queue).tag = "Chat"
    /\ Head(queue).addr = last.msg.addr

(***************************************************************************)
(* C15.  The registry never holds the producers back: whenever the channel *)
(* has room in the model (the program's has no bound), the timer can send  *)
(* its Tick and the ingress loop can queue the event of any datagram,       *)
(* also in the middle of a send loop; and some task can always step.        *)
(***************************************************************************)
C15_Room == Len(queue) < MaxQueue

C15_ProducersFree ==
    C15_Room
        => /\ ENABLED Timer
           /\ \A a \in Addr :
                 /\ ENABLED Ingress(a, <<>>)
                 /\ ENABLED Ingress(a, to_string(Ping))
                 /\ ENABLED Ingress(a, to_string(LoginReq(Str("n1", NameLen, 0))))
                 /\ ENABLED Ingress(a, to_string(ChatReq(ShortText)))

C15_NoDeadlock ==
    \/ C15_Room /\ ENABLED Timer
    \/ ENABLED Registry
    \/ ENABLED RegistryDone
    \/ \E a \in Addr : ENABLED RegistrySend(a, TRUE)

C16_Recipients(r, o) == r.todo \cup {a \in Addr : o[a] > 0}

C16_Taken ==
    Processed("Chat") /\ reg.pc = "send" => reg.todo = DOMAIN last.prev

C16_Fixed ==
    reg.pc = "send" /\ reg'.pc = "send"
        => /\ C16_Recipients(reg', out') = C16_Recipients(reg, out)
           /\ queue' # queue => UNCHANGED <<reg, out>>

C16_Snapshot == []C16_Taken /\ [][C16_Fixed]_vars

\* In the middle of a broadcast the Logout of an address not yet served has
\* been queued, and a Login waits behind the loop as well.
C16_Witness ==
    /\ reg.pc = "send"
    /\ from_slice(reg.pkt).tag = "ChatNotify"
    /\ Len(queue) = MaxQueue
    /\ \E i \in 1..Len(queue) : queue[i].tag = "Logout" /\ queue[i].addr \in reg.todo
    /\ \E a \in Addr : out[a] = 1

(***************************************************************************)
(* C17.  A Tick hands one Ping to send_to for every session its sweep      *)
(* left, once each: the probe loop starts with the keys of the swept       *)
(* table, serves each address once whether send_to succeeds or fails, and  *)
(* changes no session.                                                     *)
(***************************************************************************)
C17_Probing == reg.pc = "send" /\ reg.pkt = to_string(Ping)

C17_Start ==
    Processed("Tick")
        => /\ DOMAIN users # {} => C17_Probing
           /\ reg.todo = DOMAIN users
           /\ out = NoSends

C17_Each ==
    C17_Probing
        => \A a \in Addr :
             /\ out[a] <= 1
             /\ out[a] = 1 <=> a \in DOMAIN users \ reg.todo

C17_Step ==
    C17_Probing
        => /\ TableKept
           /\ reg'.pc = "send" => reg'.pkt = to_string(Ping)
           /\ reg'.pc = "recv" => reg.todo = {}
           /\ \A a \in Addr : out'[a] > out[a] => reg'.todo = reg.todo \ {a}

C17_ProbeOnce == [](C17_Start /\ C17_Each) /\ [][C17_Step]_vars

\* A probe has served both sessions of the table, one send_to having failed.
C17_Witness ==
    /\ C17_Probing
    /\ reg.todo = {}
    /\ DOMAIN users = Addr
    /\ \A a \in Addr : out[a] = 1
    /\ last.op = "fail"

(***************************************************************************)
(* C18 as stated.  A client that receives a Ping sends a Ping back: the    *)
(* step in which its receive task reads the Ping puts that client's        *)
(* PingReceived on the server's queue.                                     *)
(***************************************************************************)
C18_Heard == last'.op = "heard" /\ last'.did.stored

C18_Echoed ==
    [][C18_Heard /\ C15_Room
         => queue' = Append(queue, PingReceived(last'.at))]_vars

(***************************************************************************)
(* C18, amended.  Pings go both ways but none is an echo: a client whose   *)
(* receive task reads a Ping (or anything else) stores the time at most    *)
(* and sends nothing, so no event reaches the queue and the server is      *)
(* left as it was; the Pings of a client come from its own timer, which    *)
(* can send one at any time, received Ping or not.                         *)
(***************************************************************************)
C18_Quiet ==
    last'.op = "heard"
        => last'.did.sent = <<>> /\ UNCHANGED <<users, queue, reg, out>>

C18_OwnBeat ==
    \A a \in Addr \ gone : C15_Room => ENABLED ClientPing(a)

C18_NoEcho == []C18_OwnBeat /\ [][C18_Quiet]_vars

\* A registered client has read the Ping of the running probe, and no event
\* of it is on the queue.
C18_Witness ==
    /\ last.op = "heard"
    /\ last.did.stored
    /\ last.at \in DOMAIN users
    /\ C17_Probing
    /\ queue = <<>>

(***************************************************************************)
(* C19.  The server sends only to addresses that are keys of the table     *)
(* when it sends: every send_to of a loop goes to a key, a loop never      *)
(* lists an address without a session, so an address that is not           *)
(* registered gets nothing whatever it sends; and the Login, Logout and    *)
(* PingReceived arms send nothing.                                         *)
(***************************************************************************)
C19_ToKeys ==
    \A a \in Addr : out'[a] > out[a] => reg.pc = "send" /\ a \in DOMAIN users

C19_Listed == reg.todo \subseteq DOMAIN users

C19_QuietArms ==
    Processed("Login") \/ Processed("Logout") \/ Processed("PingReceived")
        => reg = Idle /\ out = NoSends

C19_OnlyRegistered == [](C19_Listed /\ C19_QuietArms) /\ [][C19_ToKeys]_vars

\* A loop has served the table while a Chat and a Ping of an address without
\* a session wait in the queue; that address got nothing.
C19_Witness ==
    /\ reg.pc = "send"
    /\ reg.todo = {}
    /\ \E a \in Addr \ DOMAIN users :
          /\ out[a] = 0
          /\ \E i, j \in 1..Len(queue) :
                queue[i].tag = "Chat" /\ queue[i].addr = a
                    /\ queue[j] = PingReceived(a)
    /\ \E b \in DOMAIN users : out[b] = 1

(***************************************************************************)
(* C20.  A Chat leaves the table as it was, the sender's last_ping         *)
(* included: a session that was stale before its Chat is stale after it,   *)
(* and the sweep of a Tick taken next removes it.                          *)
(***************************************************************************)
C20_ChatFrame ==
    Processed("Chat")
        => /\ users = last.prev
           /\ \A a \in DOMAIN last.prev :
                 Stale(last.prev[a]) => Stale(users[a]) /\ a \notin DOMAIN sweep(users)

\* The Chat of a stale session is being broadcast, and the next event is a Tick.
C20_Witness ==
    /\ Processed("Chat")
    /\ last.msg.addr \in DOMAIN users
    /\ Stale(users[last.msg.addr])
    /\ reg.pc = "send"
    /\ queue # <<>>
    /\ Head(queue) = Tick

====
